---- MODULE Spec2Model ----
(***************************************************************************)
(* Directory-naming rules of autofile/schema/loc_maps.py.                  *)
(*                                                                         *)
(* Every function of the module is pure; the only process state it reads   *)
(* is the safe-mode flag.  The model is a caller that invokes one function *)
(* on an input drawn from a bounded set and records the call: the function *)
(* (fn), its arguments (args) and what it returned or raised (ret).  Two   *)
(* chained calls feed the result of sort_together back into sort_together  *)
(* and into reaction_leaf; prev then holds the arguments of the first call.*)
(*                                                                         *)
(* Python values                                                           *)
(*   numbers   [typ |-> "int", num |-> n]   the integer n                  *)
(*             [typ |-> "float", num |-> n] the float n + 0.5              *)
(*   strings   sequences of one-character strings where the code looks at  *)
(*             the characters, TLA+ strings where it only concatenates     *)
(*   results   [kind |-> "ok", val |-> v] or [kind |-> <exception>, ...]   *)
(***************************************************************************)
EXTENDS Integers, Sequences, FiniteSets, TLC

VARIABLES safemode, fn, args, ret, prev

vars == <<safemode, fn, args, ret, prev>>

(***************************************************************************)
(* Bounds of the model.                                                    *)
(***************************************************************************)
\* species of a reaction, both sides together
MaxSpecies == 3
\* species of one side handed to _reactant_leaf
MaxSide == 2
\* names given to scan_branch and cscan_branch2, values given to scan_leaf and cscan_leaf
MaxCoords == 3
\* constraints of the mapping given to cscan_branch1
MaxCons == 3
\* numeric leaves are called with the integers -MaxNum..MaxNum
MaxNum == 101
\* subrun_leaf is called with the macro indices -MaxMacro..MaxMacro
MaxMacro == 28
\* and with the micro indices -MaxMicro..MaxMicro and those around 100
MaxMicro == 11

(***************************************************************************)
(* Results and Python numbers.                                             *)
(***************************************************************************)
Ok(v) == [kind |-> "ok", val |-> v]

AssertionError == [kind |-> "AssertionError", val |-> <<>>]

IndexError == [kind |-> "IndexError", val |-> <<>>]

PyInt(n) == [typ |-> "int", num |-> n]

PyHalf(n) == [typ |-> "float", num |-> n]

\* isinstance(v, numbers.Integral)
IsIntegral(v) == v.typ = "int"

\* twice the numeric value: the order Python compares numbers by
Twice(v) == IF v.typ = "int" THEN 2 * v.num ELSE 2 * v.num + 1

Digit == <<"0", "1", "2", "3", "4", "5", "6", "7", "8", "9">>

RECURSIVE NatStr(_)
NatStr(n) == IF n < 10 THEN Digit[n + 1] ELSE NatStr(n \div 10) \o Digit[(n % 10) + 1]

\* str(n) of an integer
IntStr(n) == IF n < 0 THEN "-" \o NatStr(-n) ELSE NatStr(n)

\* str(v) of a number
PyStr(v) == IF v.typ = "int" THEN IntStr(v.num) ELSE IntStr(v.num) \o ".5"

RECURSIVE JoinStr(_, _)
\* sep.join(strs)
JoinStr(sep, strs) ==
    IF Len(strs) = 0 THEN ""
    ELSE IF Len(strs) = 1 THEN strs[1]
    ELSE strs[1] \o sep \o JoinStr(sep, Tail(strs))

\* tuple(...) of a generator: the sequence with its elements evaluated
Tuple(f) == f \o <<>>

\* lexicographic order of two sequences of integers (a proper prefix is less)
LexLt(a, b) ==
    \E k \in 1..Len(b) :
        /\ \A j \in 1..(k - 1) : j <= Len(a) /\ a[j] = b[j]
        /\ k > Len(a) \/ a[k] < b[k]

(***************************************************************************)
(* The chemical identifiers of the model and what the identifier library   *)
(* (automol.chi, automol.inchi_key) answers about them.                    *)
(***************************************************************************)
\* standard and complete: methane (10 electrons), ethyl radical (17)
RxnIchs == {"CH4", "C2H5"}

\* CH4_ns spells methane in a non-standard form; CHFClBr lacks its stereo layer
LeafIchs == {"CH4", "C2H5", "CH4_ns", "CHFClBr"}

is_standard_form(ich) == ich # "CH4_ns"

is_complete(ich) == ich # "CHFClBr"

standard_form(ich) == IF ich = "CH4_ns" THEN "CH4" ELSE ich

\* number of electrons of the neutral species
NElec(ich) ==
    CASE ich = "CH4" -> 10
      [] ich = "C2H5" -> 17
      [] ich = "CH4_ns" -> 10
      [] ich = "CHFClBr" -> 68

\* rank of the identifier in the library's canonical order
ChiKey(ich) ==
    CASE standard_form(ich) = "CH4" -> 1
      [] standard_form(ich) = "C2H5" -> 2
      [] standard_form(ich) = "CHFClBr" -> 3

\* rank of the identifier in Python's string order ('2' < 'H', '4' < 'F')
StrKey(ich) ==
    CASE ich = "C2H5" -> 1
      [] ich = "CH4" -> 2
      [] ich = "CH4_ns" -> 3
      [] ich = "CHFClBr" -> 4

\* automol.chi.argsort(ichs): the indices in canonical order, ties in input order
argsort(ichs) ==
    LET n == Len(ichs)
        Before(j, i) == \/ ChiKey(ichs[j]) < ChiKey(ichs[i])
                        \/ ChiKey(ichs[j]) = ChiKey(ichs[i]) /\ j < i
        Rank(i) == Cardinality({j \in 1..n : Before(j, i)}) + 1
    IN  Tuple([k \in 1..n |-> CHOOSE i \in 1..n : Rank(i) = k])

\* automol.chi.sorted_(ichs)
sorted_(ichs) ==
    LET idxs == argsort(ichs)
    IN  Tuple([k \in 1..Len(idxs) |-> ichs[idxs[k]]])

\* automol.chi.standard_form(automol.chi.join(ichs)): one identifier of all components
join_standard_form(ichs) ==
    JoinStr(".", sorted_(Tuple([k \in 1..Len(ichs) |-> standard_form(ichs[k])])))

formula_layer(ich) == "formula(" \o ich \o ")"

inchi_key(ich) == "key(" \o ich \o ")"

first_hash(ick) == "first_hash(" \o ick \o ")"

second_hash_with_extension(ick) == "second_hash(" \o ick \o ")"

\* _is_valid_inchi_multiplicity(ich, mul, chg): the electron-count parity rule
is_valid_inchi_multiplicity(ich, mul, chg) ==
    LET unpaired == mul - 1
        electrons == NElec(ich) - chg
    IN  /\ mul >= 1
        /\ unpaired <= electrons
        /\ (electrons - unpaired) % 2 = 0

\* the charge _is_valid_inchi_multiplicity assumes when it is given none
DefaultChg == 0

(***************************************************************************)
(* Species and reaction layers.                                            *)
(***************************************************************************)
species_leaf(ich, chg, mul, safe) ==
    IF safe /\ ~is_standard_form(ich) THEN AssertionError
    ELSE IF safe /\ ~is_complete(ich) THEN AssertionError
    ELSE IF ~IsIntegral(chg) THEN AssertionError
    ELSE IF ~IsIntegral(mul) THEN AssertionError
    ELSE IF ~is_valid_inchi_multiplicity(ich, mul.num, chg.num) THEN AssertionError
    ELSE LET ick == inchi_key(ich)
         IN  Ok(<<formula_layer(ich), first_hash(ick), PyStr(chg), PyStr(mul),
                  second_hash_with_extension(ick)>>)

\* _sort_together that reads the multiplicities in the reverse of the sorted order
_sort_together_muls_reversed(ichs, chgs, muls) ==
    LET idxs == argsort(ichs)
        n == Len(idxs)
    IN  <<Tuple([k \in 1..n |-> ichs[idxs[k]]]),
          Tuple([k \in 1..n |-> chgs[idxs[k]]]),
          Tuple([k \in 1..n |-> muls[idxs[n + 1 - k]]])>>

_sort_together(ichs, chgs, muls) ==
    LET idxs == argsort(ichs)
    IN  <<Tuple([k \in 1..Len(idxs) |-> ichs[idxs[k]]]),
          Tuple([k \in 1..Len(idxs) |-> chgs[idxs[k]]]),
          Tuple([k \in 1..Len(idxs) |-> muls[idxs[k]]])>>

_sortable_representation(ichs, chgs, muls) ==
    LET idxs == argsort(ichs)
    IN  <<Len(ichs), Tuple([k \in 1..Len(idxs) |-> ichs[idxs[k]]]), chgs, muls>>

\* r1 > r2 for two sortable representations, as Python compares tuples
RepGt(r1, r2) ==
    LET strs(ichs) == Tuple([k \in 1..Len(ichs) |-> StrKey(ichs[k])])
        nums(vals) == Tuple([k \in 1..Len(vals) |-> Twice(vals[k])])
    IN  \/ r1[1] > r2[1]
        \/ /\ r1[1] = r2[1]
           /\ \/ LexLt(strs(r2[2]), strs(r1[2]))
              \/ /\ strs(r1[2]) = strs(r2[2])
                 /\ \/ LexLt(nums(r2[3]), nums(r1[3]))
                    \/ /\ nums(r1[3]) = nums(r2[3])
                       /\ LexLt(nums(r2[4]), nums(r1[4]))

\* reaction_is_reversed with the comparison the wrong way round
reaction_is_reversed_lt(rxn_ichs, rxn_chgs, rxn_muls) ==
    LET s1 == _sort_together(rxn_ichs[1], rxn_chgs[1], rxn_muls[1])
        s2 == _sort_together(rxn_ichs[2], rxn_chgs[2], rxn_muls[2])
    IN  RepGt(_sortable_representation(s2[1], s2[2], s2[3]),
              _sortable_representation(s1[1], s1[2], s1[3]))

reaction_is_reversed(rxn_ichs, rxn_chgs, rxn_muls) ==
    LET s1 == _sort_together(rxn_ichs[1], rxn_chgs[1], rxn_muls[1])
        s2 == _sort_together(rxn_ichs[2], rxn_chgs[2], rxn_muls[2])
    IN  RepGt(_sortable_representation(s1[1], s1[2], s1[3]),
              _sortable_representation(s2[1], s2[2], s2[3]))

\* sort_together that sorts each side and never exchanges the sides
sort_together_no_exchange(rxn_ichs, rxn_chgs, rxn_muls) ==
    LET s1 == _sort_together(rxn_ichs[1], rxn_chgs[1], rxn_muls[1])
        s2 == _sort_together(rxn_ichs[2], rxn_chgs[2], rxn_muls[2])
    IN  <<<<s1[1], s2[1]>>, <<s1[2], s2[2]>>, <<s1[3], s2[3]>>>>

sort_together(rxn_ichs, rxn_chgs, rxn_muls) ==
    LET s1 == _sort_together(rxn_ichs[1], rxn_chgs[1], rxn_muls[1])
        s2 == _sort_together(rxn_ichs[2], rxn_chgs[2], rxn_muls[2])
    IN  IF reaction_is_reversed(rxn_ichs, rxn_chgs, rxn_muls)
        THEN <<<<s2[1], s1[1]>>, <<s2[2], s1[2]>>, <<s2[3], s1[3]>>>>
        ELSE <<<<s1[1], s2[1]>>, <<s1[2], s2[2]>>, <<s1[3], s2[3]>>>>

_reactant_leaf(ichs, chgs, muls, safe) ==
    LET idx == 1..Len(ichs)
    IN  IF safe /\ \E k \in idx : ~is_standard_form(ichs[k]) \/ ~is_complete(ichs[k])
        THEN AssertionError
        ELSE IF safe /\ ichs # sorted_(ichs) THEN AssertionError
        ELSE IF ~(Len(ichs) = Len(chgs) /\ Len(chgs) = Len(muls)) THEN AssertionError
        ELSE IF \E k \in idx : ~IsIntegral(chgs[k]) THEN AssertionError
        ELSE IF \E k \in idx : ~IsIntegral(muls[k]) THEN AssertionError
        ELSE IF \E k \in idx :
                   ~is_valid_inchi_multiplicity(ichs[k], muls[k].num, DefaultChg)
        THEN AssertionError
        ELSE LET ich == join_standard_form(ichs)
                 ick == inchi_key(ich)
             IN  Ok(<<formula_layer(ich), first_hash(ick),
                      JoinStr("_", Tuple([k \in idx |-> PyStr(chgs[k])])),
                      JoinStr("_", Tuple([k \in idx |-> PyStr(muls[k])])),
                      second_hash_with_extension(ick)>>)

reaction_leaf(rxn_ichs, rxn_chgs, rxn_muls, ts_mul, safe) ==
    IF safe /\ <<rxn_ichs, rxn_chgs, rxn_muls>> # sort_together(rxn_ichs, rxn_chgs, rxn_muls)
    THEN AssertionError
    ELSE LET leaf1 == _reactant_leaf(rxn_ichs[1], rxn_chgs[1], rxn_muls[1], safe)
             leaf2 == _reactant_leaf(rxn_ichs[2], rxn_chgs[2], rxn_muls[2], safe)
         IN  IF leaf1.kind # "ok" THEN leaf1
             ELSE IF leaf2.kind # "ok" THEN leaf2
             ELSE Ok(leaf1.val \o leaf2.val \o <<PyStr(ts_mul)>>)

(***************************************************************************)
(* Inputs of the species and reaction calls.                               *)
(***************************************************************************)
TsMuls == {PyInt(1), PyInt(2)}

\* species <<ich, chg, mul>> of the reactions: methane and its cation as singlet and
\* doublet, the ethyl radical and its cation as doublet and singlet
RxnSpecies ==
    {<<"CH4", PyInt(0), PyInt(1)>>, <<"CH4", PyInt(1), PyInt(1)>>, <<"CH4", PyInt(1), PyInt(2)>>,
     <<"C2H5", PyInt(0), PyInt(2)>>, <<"C2H5", PyInt(1), PyInt(2)>>, <<"C2H5", PyInt(1), PyInt(1)>>}

\* species handed to the leaves: those of the reactions, the identifiers that are not
\* standard or not complete, and a charge and a multiplicity that are no integers
LeafSpecies ==
    RxnSpecies
        \cup ({"CH4_ns", "CHFClBr"} \X {PyInt(0)} \X {PyInt(1), PyInt(2)})
        \cup {<<"CH4", PyHalf(0), PyInt(1)>>, <<"CH4", PyInt(0), PyHalf(1)>>}

\* the sides of n species: <<ichs, chgs, muls>>
Sides(n, species) ==
    {<<[k \in 1..n |-> f[k][1]], [k \in 1..n |-> f[k][2]], [k \in 1..n |-> f[k][3]]>> :
        f \in [1..n -> species]}

\* two-sided reactions <<rxn_ichs, rxn_chgs, rxn_muls>> of at most MaxSpecies species
RxnInputs ==
    UNION {{<<<<s1[1], s2[1]>>, <<s1[2], s2[2]>>, <<s1[3], s2[3]>>>> :
               s1 \in Sides(p[1], RxnSpecies), s2 \in Sides(p[2], RxnSpecies)} :
           p \in {q \in (1..MaxSpecies) \X (1..MaxSpecies) : q[1] + q[2] <= MaxSpecies}}

LeafSides == UNION {Sides(n, LeafSpecies) : n \in 1..MaxSide}

(***************************************************************************)
(* Python strings as sequences of characters.                              *)
(***************************************************************************)
\* the characters of the model in code-point order
Ascii ==
    <<" ", "'", ",", "-", ".", "0", "1", "2", "3", "4", "5", "6", "7", "8", "9", ":", "@",
      "A", "B", "C", "D", "E", "F", "G", "H", "I", "J", "K", "L", "M", "N", "O", "P", "Q",
      "R", "S", "T", "U", "V", "W", "X", "Y", "Z", "[", "]", "_",
      "a", "b", "c", "d", "e", "f", "g", "h", "i", "j", "k", "l", "m", "n", "o", "p", "q",
      "r", "s", "t", "u", "v", "w", "x", "y", "z", "{", "}">>

\* position of a character in the code-point order
Ord(c) == CHOOSE i \in 1..Len(Ascii) : Ascii[i] = c

IsDigit(c) == Ord(c) \in Ord("0")..Ord("9")

IsUpper(c) == Ord(c) \in Ord("A")..Ord("Z")

IsLower(c) == Ord(c) \in Ord("a")..Ord("z")

\* string.ascii_uppercase
ascii_uppercase == [i \in 1..26 |-> Ascii[Ord("A") + i - 1]]

\* str.lower()
lower(s) ==
    Tuple([k \in 1..Len(s) |->
              IF IsUpper(s[k]) THEN Ascii[Ord(s[k]) - Ord("A") + Ord("a")] ELSE s[k]])

\* str.upper()
upper(s) ==
    Tuple([k \in 1..Len(s) |->
              IF IsLower(s[k]) THEN Ascii[Ord(s[k]) - Ord("a") + Ord("A")] ELSE s[k]])

\* a < b for two strings, as Python compares them
StrLt(a, b) ==
    LexLt(Tuple([k \in 1..Len(a) |-> Ord(a[k])]), Tuple([k \in 1..Len(b) |-> Ord(b[k])]))

RECURSIVE NatChars(_)
\* the decimal digits of a natural number
NatChars(n) ==
    IF n < 10 THEN <<Ascii[Ord("0") + n]>>
    ELSE NatChars(n \div 10) \o <<Ascii[Ord("0") + (n % 10)]>>

\* format(n, '0<w>d'): sign first, then zeros up to the width, then the digits
FormatZeroPadded(n, w) ==
    LET sign == IF n < 0 THEN <<"-">> ELSE <<>>
        digits == NatChars(IF n < 0 THEN -n ELSE n)
        pad == w - Len(sign) - Len(digits)
    IN  sign \o [k \in 1..(IF pad > 0 THEN pad ELSE 0) |-> "0"] \o digits

\* format(n, '0><w>d'): the number as str writes it, right-aligned, filled with '0'
FormatFilledRight(n, w) ==
    LET str == (IF n < 0 THEN <<"-">> ELSE <<>>) \o NatChars(IF n < 0 THEN -n ELSE n)
        pad == w - Len(str)
    IN  [k \in 1..(IF pad > 0 THEN pad ELSE 0) |-> "0"] \o str

\* format(val, '.2f') of the float val = n / 1000 (n not half-way between two hundredths)
FormatFixed2(n) ==
    LET a == IF n < 0 THEN -n ELSE n
        h == (a + 5) \div 10
    IN  (IF n < 0 THEN <<"-">> ELSE <<>>)
            \o NatChars(h \div 100) \o <<".">> \o FormatZeroPadded(h % 100, 2)

\* float(round(val, 2)) of the float val = n / 1000, in thousandths
Round2(n) ==
    LET a == IF n < 0 THEN -n ELSE n
        h == (a + 5) \div 10
    IN  IF n < 0 THEN -(10 * h) ELSE 10 * h

RECURSIVE DigitsValue(_)
DigitsValue(s) ==
    IF Len(s) = 0 THEN 0
    ELSE 10 * DigitsValue(SubSeq(s, 1, Len(s) - 1)) + (Ord(s[Len(s)]) - Ord("0"))

\* int(s) of a string of decimal digits with an optional sign
ParseInt(s) == IF s[1] = "-" THEN -DigitsValue(Tail(s)) ELSE DigitsValue(s)

RECURSIVE Join(_, _)
\* sep.join(strs) on strings of characters
Join(sep, strs) ==
    IF Len(strs) = 0 THEN <<>>
    ELSE IF Len(strs) = 1 THEN strs[1]
    ELSE strs[1] \o sep \o Join(sep, Tail(strs))

RECURSIVE Split(_, _)
\* s.split(c)
Split(s, c) ==
    IF \A k \in 1..Len(s) : s[k] # c THEN <<s>>
    ELSE LET k == CHOOSE i \in 1..Len(s) : s[i] = c /\ \A j \in 1..(i - 1) : s[j] # c
         IN  <<SubSeq(s, 1, k - 1)>> \o Split(SubSeq(s, k + 1, Len(s)), c)

\* sorted(s, key=...): keys[i] is the key of s[i] as a sequence of integers; stable
Sorted(s, keys) ==
    LET n == Len(s)
        Before(j, i) == LexLt(keys[j], keys[i]) \/ (~LexLt(keys[i], keys[j]) /\ j < i)
        Rank(i) == Cardinality({j \in 1..n : Before(j, i)}) + 1
    IN  Tuple([k \in 1..n |-> s[CHOOSE i \in 1..n : Rank(i) = k]])

\* the code points of a string: the key Python orders strings by
Codes(a) == Tuple([k \in 1..Len(a) |-> Ord(a[k])])

(***************************************************************************)
(* _short_hash: a short digest of fixed length of a string, a list or a    *)
(* mapping, taken of the text Python writes the object as.                 *)
(***************************************************************************)
HashSymbols == <<"a", "B", "c", "7", "x", "Q", "_">>

RECURSIVE WeightedSum(_, _)
WeightedSum(s, w) ==
    IF Len(s) = 0 THEN 0
    ELSE WeightedSum(SubSeq(s, 1, Len(s) - 1), w) + (Len(s) * w + 1) * Ord(s[Len(s)])

short_hash(text) ==
    Tuple([k \in 1..3 |-> HashSymbols[(WeightedSum(text, k - 1) % Len(HashSymbols)) + 1]])

\* str(list) of a list of numbers
ListText(vals) ==
    <<"[">> \o Join(<<",", " ">>,
                    [k \in 1..Len(vals) |->
                        IF vals[k].typ = "int" THEN FormatFilledRight(vals[k].num, 1)
                        ELSE FormatFilledRight(vals[k].num, 1) \o <<".", "5">>])
            \o <<"]">>

\* str(dict) of a mapping from coordinate names to floats, listed in its insertion order
DictText(dct) ==
    <<"{">> \o Join(<<",", " ">>,
                    [k \in 1..Len(dct) |->
                        <<"'">> \o dct[k][1] \o <<"'", ":", " ">> \o FormatFixed2(dct[k][2])])
            \o <<"}">>

(***************************************************************************)
(* Numeric leaves and the sub-run leaf.                                    *)
(***************************************************************************)
\* the leaf with the upper limit of the range off by one
transition_state_leaf_to_100(num) ==
    IF ~(IsIntegral(num) /\ 0 <= num.num /\ num.num <= 100) THEN AssertionError
    ELSE Ok(FormatZeroPadded(num.num, 2))

transition_state_leaf(num) ==
    IF ~(IsIntegral(num) /\ 0 <= num.num /\ num.num <= 99) THEN AssertionError
    ELSE Ok(FormatZeroPadded(num.num, 2))

zmatrix_leaf(num) ==
    IF ~(IsIntegral(num) /\ 0 <= num.num /\ num.num <= 99) THEN AssertionError
    ELSE Ok(FormatZeroPadded(num.num, 2))

vrctst_leaf(num) ==
    IF ~(IsIntegral(num) /\ 0 <= num.num /\ num.num <= 99) THEN AssertionError
    ELSE Ok(FormatZeroPadded(num.num, 2))

\* subrun_leaf that writes the micro index without padding
subrun_leaf_unpadded(macro_idx, micro_idx) ==
    IF ~IsIntegral(macro_idx) THEN AssertionError
    ELSE IF ~IsIntegral(micro_idx) THEN AssertionError
    ELSE IF ~(macro_idx.num < 26) THEN AssertionError
    ELSE IF macro_idx.num < -26 THEN IndexError
    ELSE LET macro_str == IF macro_idx.num >= 0
                          THEN <<ascii_uppercase[macro_idx.num + 1]>>
                          ELSE <<ascii_uppercase[26 + macro_idx.num + 1]>>
         IN  Ok(macro_str \o FormatFilledRight(micro_idx.num, 1))

\* a negative index counts from the end of ascii_uppercase; one below -26 is out of range
subrun_leaf(macro_idx, micro_idx) ==
    IF ~IsIntegral(macro_idx) THEN AssertionError
    ELSE IF ~IsIntegral(micro_idx) THEN AssertionError
    ELSE IF ~(macro_idx.num < 26) THEN AssertionError
    ELSE IF macro_idx.num < -26 THEN IndexError
    ELSE LET macro_str == IF macro_idx.num >= 0
                          THEN <<ascii_uppercase[macro_idx.num + 1]>>
                          ELSE <<ascii_uppercase[26 + macro_idx.num + 1]>>
             micro_str == FormatFilledRight(micro_idx.num, 2)
         IN  Ok(macro_str \o micro_str)

(***************************************************************************)
(* Theory leaf.                                                            *)
(***************************************************************************)
\* the method and basis registries of elstruct, in standard (lower) case
RegisteredMethods == {<<"h", "f">>}

RegisteredBases == {<<"s", "t", "o">>}

\* elstruct.Method.contains(name): the lookup ignores the case of the name
method_contains(name) == lower(name) \in RegisteredMethods

\* elstruct.Basis.contains(name)
basis_contains(name) == lower(name) \in RegisteredBases

\* elstruct.Method.evaluate_method_type(method): <<core method, prefixes>>;
\* the prefixes are the parts of the name before its last part, split at '-'
evaluate_method_type(method) ==
    LET parts == Split(method, "-")
    IN  <<parts[Len(parts)], SubSeq(parts, 1, Len(parts) - 1)>>

\* theory_leaf that hashes the basis name as it was given
theory_leaf_basis_as_given(method, basis, orb_type) ==
    LET mtype == evaluate_method_type(method)
        core_method == mtype[1]
        pfxs == mtype[2]
        hashed_pfx == IF Len(pfxs) > 0
                      THEN short_hash(lower(Join(<<>>, pfxs))) \o <<"-">>
                      ELSE <<>>
    IN  IF ~method_contains(core_method) THEN AssertionError
        ELSE IF ~basis_contains(basis) THEN AssertionError
        ELSE IF orb_type.typ = "str" /\ orb_type.str \in {<<"R">>, <<"U">>}
        THEN Ok(hashed_pfx \o short_hash(lower(core_method)) \o short_hash(basis)
                    \o orb_type.str)
        ELSE IF ~(/\ orb_type.typ = "list"
                  /\ Len(orb_type.items) = 2
                  /\ \A k \in 1..Len(orb_type.items) : orb_type.items[k].typ = "int")
        THEN AssertionError
        ELSE Ok(hashed_pfx \o short_hash(lower(core_method)) \o short_hash(basis)
                    \o <<"@">> \o upper(short_hash(ListText(orb_type.items))))

theory_leaf(method, basis, orb_type) ==
    LET mtype == evaluate_method_type(method)
        core_method == mtype[1]
        pfxs == mtype[2]
        hashed_pfx == IF Len(pfxs) > 0
                      THEN short_hash(lower(Join(<<>>, pfxs))) \o <<"-">>
                      ELSE <<>>
    IN  IF ~method_contains(core_method) THEN AssertionError
        ELSE IF ~basis_contains(basis) THEN AssertionError
        ELSE IF orb_type.typ = "str" /\ orb_type.str \in {<<"R">>, <<"U">>}
        THEN Ok(hashed_pfx \o short_hash(lower(core_method)) \o short_hash(lower(basis))
                    \o orb_type.str)
        ELSE IF ~(/\ orb_type.typ = "list"
                  /\ Len(orb_type.items) = 2
                  /\ \A k \in 1..Len(orb_type.items) : orb_type.items[k].typ = "int")
        THEN AssertionError
        ELSE Ok(hashed_pfx \o short_hash(lower(core_method)) \o short_hash(lower(basis))
                    \o <<"@">> \o upper(short_hash(ListText(orb_type.items))))

(***************************************************************************)
(* Scan and constrained-scan layers.                                       *)
(***************************************************************************)
scan_branch(coo_names) ==
    Join(<<"_">>, Sorted(coo_names, Tuple([k \in 1..Len(coo_names) |-> Codes(coo_names[k])])))

\* scan_leaf that puts the values in increasing order first
scan_leaf_sorted(coo_vals) ==
    LET vals == Sorted(coo_vals, Tuple([k \in 1..Len(coo_vals) |-> <<coo_vals[k]>>]))
    IN  Join(<<"_">>, Tuple([k \in 1..Len(vals) |-> FormatFixed2(vals[k])]))

scan_leaf(coo_vals) ==
    Join(<<"_">>, Tuple([k \in 1..Len(coo_vals) |-> FormatFixed2(coo_vals[k])]))

\* the sort key that orders the indices as strings, not as integers
_sort_key_as_string(coo_name) ==
    LET coo_typ_sort_dct == [R |-> 0, A |-> 1, D |-> 2]
    IN  <<coo_typ_sort_dct[coo_name[1]]>>
            \o Tuple([k \in 1..(Len(coo_name) - 1) |-> Ord(coo_name[k + 1])])

\* _sort_key of cscan_branch1: <<type code, index>>
_sort_key(coo_name) ==
    LET coo_typ_sort_dct == [R |-> 0, A |-> 1, D |-> 2]
        typ == coo_name[1]
        num == ParseInt(Tail(coo_name))
    IN  <<coo_typ_sort_dct[typ], num>>

\* the mapping cscan_branch1 hashes: <<name, value>> pairs in the order of the dict
cons_coo_val_dct(dct) ==
    LET value(name) == (CHOOSE e \in {dct[k] : k \in 1..Len(dct)} : e[1] = name)[2]
        cons_coo_names == Sorted(Tuple([k \in 1..Len(dct) |-> dct[k][1]]),
                                 Tuple([k \in 1..Len(dct) |-> _sort_key(dct[k][1])]))
        cons_coo_vals == Tuple([k \in 1..Len(dct) |-> Round2(value(cons_coo_names[k]))])
    IN  Tuple([k \in 1..Len(dct) |-> <<cons_coo_names[k], cons_coo_vals[k]>>])

cscan_branch1(dct) == short_hash(DictText(cons_coo_val_dct(dct)))

cscan_branch2(coo_names) ==
    Join(<<"_">>, Sorted(coo_names, Tuple([k \in 1..Len(coo_names) |-> Codes(coo_names[k])])))

cscan_leaf(coo_vals) ==
    Join(<<"_">>, Tuple([k \in 1..Len(coo_vals) |-> FormatFixed2(coo_vals[k])]))

(***************************************************************************)
(* Inputs of the other calls.                                              *)
(***************************************************************************)
\* integers and two floats
Nums == {PyInt(n) : n \in (-MaxNum)..MaxNum} \cup {PyHalf(0), PyHalf(98)}

MacroIdxs == {PyInt(n) : n \in (-MaxMacro)..MaxMacro} \cup {PyHalf(0)}

MicroIdxs == {PyInt(n) : n \in ((-MaxMicro)..MaxMicro) \cup (98..101)} \cup {PyHalf(0)}

\* hf, Hf, ae-hf, AE-hf, and xx, a-xx, which elstruct does not know
Methods ==
    {<<"h", "f">>, <<"H", "f">>, <<"a", "e", "-", "h", "f">>, <<"A", "E", "-", "h", "f">>,
     <<"x", "x">>, <<"a", "-", "x", "x">>}

\* sto, STO, Sto, and zz, which elstruct does not know
Bases == {<<"s", "t", "o">>, <<"S", "T", "O">>, <<"S", "t", "o">>, <<"z", "z">>}

\* an orbital type is a string (str), a list or a tuple of numbers (items)
OrbStr(chars) == [typ |-> "str", str |-> chars, items |-> <<>>]

OrbList(vals) == [typ |-> "list", str |-> <<>>, items |-> vals]

OrbTuple(vals) == [typ |-> "tuple", str |-> <<>>, items |-> vals]

\* 'R', 'U', 'X', 'r', [1, 2], [2, 1], [1], [1, 1.5], (1, 2)
OrbTypes ==
    {OrbStr(<<"R">>), OrbStr(<<"U">>), OrbStr(<<"X">>), OrbStr(<<"r">>),
     OrbList(<<PyInt(1), PyInt(2)>>), OrbList(<<PyInt(2), PyInt(1)>>),
     OrbList(<<PyInt(1)>>), OrbList(<<PyInt(1), PyHalf(1)>>),
     OrbTuple(<<PyInt(1), PyInt(2)>>)}

\* R2, R10, A1, D3
CooNames == {<<"R", "2">>, <<"R", "1", "0">>, <<"A", "1">>, <<"D", "3">>}

\* -0.004, 1.004, 1.006, 2.0 in thousandths
CooVals == {-4, 1004, 1006, 2000}

SeqsUpTo(S, n) == UNION {[1..k -> S] : k \in 1..n}

\* -0.004 and 1.006 in thousandths
ConsVals == {-4, 1006}

\* mappings of up to MaxCons names, as the <<name, value>> pairs in insertion order
ConsDcts ==
    {d \in SeqsUpTo(CooNames \X ConsVals, MaxCons) :
        \A a, b \in 1..Len(d) : d[a][1] = d[b][1] => a = b}

(***************************************************************************)
(* The calls.                                                              *)
(***************************************************************************)
Init ==
    /\ safemode \in BOOLEAN
    /\ fn = "none"
    /\ args = <<>>
    /\ ret = Ok(<<>>)
    /\ prev = <<>>

CallSpeciesLeaf ==
    /\ fn = "none"
    /\ \E spc \in LeafSpecies :
          /\ args' = spc
          /\ ret' = species_leaf(spc[1], spc[2], spc[3], safemode)
    /\ fn' = "species_leaf"
    /\ UNCHANGED <<safemode, prev>>

CallReactantLeaf ==
    /\ fn = "none"
    /\ \E s \in LeafSides :
          /\ args' = s
          /\ ret' = _reactant_leaf(s[1], s[2], s[3], safemode)
    /\ fn' = "_reactant_leaf"
    /\ UNCHANGED <<safemode, prev>>

CallSortTogether ==
    /\ fn = "none"
    /\ \E x \in RxnInputs :
          /\ args' = x
          /\ ret' = Ok(sort_together(x[1], x[2], x[3]))
    /\ fn' = "sort_together"
    /\ UNCHANGED <<safemode, prev>>

\* sort_together applied to what sort_together returned
SortTogetherAgain ==
    /\ fn = "sort_together"
    /\ prev = <<>>
    /\ args' = ret.val
    /\ ret' = Ok(sort_together(ret.val[1], ret.val[2], ret.val[3]))
    /\ prev' = args
    /\ UNCHANGED <<safemode, fn>>

CallReactionIsReversed ==
    /\ fn = "none"
    /\ \E x \in RxnInputs :
          /\ args' = x
          /\ ret' = Ok(reaction_is_reversed(x[1], x[2], x[3]))
    /\ fn' = "reaction_is_reversed"
    /\ UNCHANGED <<safemode, prev>>

\* reaction_leaf(*sort_together(*x), ts_mul)
ReactionLeafOfSorted ==
    /\ fn = "sort_together"
    /\ prev = <<>>
    /\ \E ts_mul \in TsMuls :
          /\ args' = <<ret.val[1], ret.val[2], ret.val[3], ts_mul>>
          /\ ret' = reaction_leaf(ret.val[1], ret.val[2], ret.val[3], ts_mul, safemode)
    /\ fn' = "reaction_leaf"
    /\ prev' = args
    /\ UNCHANGED safemode

CallTransitionStateLeaf ==
    /\ fn = "none"
    /\ \E num \in Nums :
          /\ args' = <<num>>
          /\ ret' = transition_state_leaf(num)
    /\ fn' = "transition_state_leaf"
    /\ UNCHANGED <<safemode, prev>>

CallZmatrixLeaf ==
    /\ fn = "none"
    /\ \E num \in Nums :
          /\ args' = <<num>>
          /\ ret' = zmatrix_leaf(num)
    /\ fn' = "zmatrix_leaf"
    /\ UNCHANGED <<safemode, prev>>

CallVrctstLeaf ==
    /\ fn = "none"
    /\ \E num \in Nums :
          /\ args' = <<num>>
          /\ ret' = vrctst_leaf(num)
    /\ fn' = "vrctst_leaf"
    /\ UNCHANGED <<safemode, prev>>

CallSubrunLeaf ==
    /\ fn = "none"
    /\ \E macro_idx \in MacroIdxs, micro_idx \in MicroIdxs :
          /\ args' = <<macro_idx, micro_idx>>
          /\ ret' = subrun_leaf(macro_idx, micro_idx)
    /\ fn' = "subrun_leaf"
    /\ UNCHANGED <<safemode, prev>>

CallTheoryLeaf ==
    /\ fn = "none"
    /\ \E method \in Methods, basis \in Bases, orb_type \in OrbTypes :
          /\ args' = <<method, basis, orb_type>>
          /\ ret' = theory_leaf(method, basis, orb_type)
    /\ fn' = "theory_leaf"
    /\ UNCHANGED <<safemode, prev>>

CallScanBranch ==
    /\ fn = "none"
    /\ \E coo_names \in SeqsUpTo(CooNames, MaxCoords) :
          /\ args' = coo_names
          /\ ret' = Ok(scan_branch(coo_names))
    /\ fn' = "scan_branch"
    /\ UNCHANGED <<safemode, prev>>

CallScanLeaf ==
    /\ fn = "none"
    /\ \E coo_vals \in SeqsUpTo(CooVals, MaxCoords) :
          /\ args' = coo_vals
          /\ ret' = Ok(scan_leaf(coo_vals))
    /\ fn' = "scan_leaf"
    /\ UNCHANGED <<safemode, prev>>

CallCscanBranch1 ==
    /\ fn = "none"
    /\ \E dct \in ConsDcts :
          /\ args' = dct
          /\ ret' = Ok(cscan_branch1(dct))
    /\ fn' = "cscan_branch1"
    /\ UNCHANGED <<safemode, prev>>

CallCscanBranch2 ==
    /\ fn = "none"
    /\ \E coo_names \in SeqsUpTo(CooNames, MaxCoords) :
          /\ args' = coo_names
          /\ ret' = Ok(cscan_branch2(coo_names))
    /\ fn' = "cscan_branch2"
    /\ UNCHANGED <<safemode, prev>>

CallCscanLeaf ==
    /\ fn = "none"
    /\ \E coo_vals \in SeqsUpTo(CooVals, MaxCoords) :
          /\ args' = coo_vals
          /\ ret' = Ok(cscan_leaf(coo_vals))
    /\ fn' = "cscan_leaf"
    /\ UNCHANGED <<safemode, prev>>

Next ==
    \/ CallSpeciesLeaf
    \/ CallReactantLeaf
    \/ CallSortTogether
    \/ SortTogetherAgain
    \/ CallReactionIsReversed
    \/ ReactionLeafOfSorted
    \/ CallTransitionStateLeaf
    \/ CallZmatrixLeaf
    \/ CallVrctstLeaf
    \/ CallSubrunLeaf
    \/ CallTheoryLeaf
    \/ CallScanBranch
    \/ CallScanLeaf
    \/ CallCscanBranch1
    \/ CallCscanBranch2
    \/ CallCscanLeaf

Spec == Init /\ [][Next]_vars

(***************************************************************************)
(* Properties of the species and reaction layers.                          *)
(***************************************************************************)
\* the reaction with its two sides exchanged in all three components
Exchange(x) == <<<<x[1][2], x[1][1]>>, <<x[2][2], x[2][1]>>, <<x[3][2], x[3][1]>>>>

\* the permutations of 1..n
Perms(n) == {p \in [1..n -> 1..n] : \A a, b \in 1..n : p[a] = p[b] => a = b}

\* sequence s read in the order p
Permuted(s, p) == Tuple([k \in 1..Len(s) |-> s[p[k]]])

\* every species of the side passes the checks _reactant_leaf makes in safe mode
ValidSide(ichs, chgs, muls) ==
    \A k \in 1..Len(ichs) :
        /\ is_standard_form(ichs[k]) /\ is_complete(ichs[k])
        /\ IsIntegral(chgs[k]) /\ IsIntegral(muls[k])
        /\ is_valid_inchi_multiplicity(ichs[k], muls[k].num, DefaultChg)

\* side i of reaction x with its species in canonical identifier order, each charge
\* and multiplicity staying with its identifier and equal identifiers in input order
CanonicalSide(x, i) ==
    LET ichs == x[1][i]
        n == Len(ichs)
        InOrder(p) ==
            \A a, b \in 1..n :
                a < b => \/ ChiKey(ichs[p[a]]) < ChiKey(ichs[p[b]])
                         \/ ChiKey(ichs[p[a]]) = ChiKey(ichs[p[b]]) /\ p[a] < p[b]
        p == CHOOSE q \in Perms(n) : InOrder(q)
    IN  <<Permuted(ichs, p), Permuted(x[2][i], p), Permuted(x[3][i], p)>>

\* (species count, identifiers, charges, multiplicities) of a side as one sequence
FlatRep(s) ==
    <<Len(s[1])>> \o [k \in 1..Len(s[1]) |-> StrKey(s[1][k])]
                  \o [k \in 1..Len(s[2]) |-> Twice(s[2][k])]
                  \o [k \in 1..Len(s[3]) |-> Twice(s[3][k])]

\* C1: a reaction and the reaction with its sides exchanged get the same reaction
\* leaf once sort_together has canonicalised them, safe mode on or off: the call
\* reaction_leaf(*sort_together(*x), ts_mul) ends as the same call on the exchanged
\* x does, and it returns a path (the safe-mode assertion included) when the
\* species of x pass the leaf's checks.
C1_ReverseSameLeaf ==
    (fn = "reaction_leaf" /\ prev # <<>>) =>
        \A y \in {Exchange(prev)} : \A sy \in {sort_together(y[1], y[2], y[3])} :
            /\ ret = reaction_leaf(sy[1], sy[2], sy[3], args[4], safemode)
            /\ (ValidSide(prev[1][1], prev[2][1], prev[3][1]) /\
                ValidSide(prev[1][2], prev[2][2], prev[3][2])) => ret.kind = "ok"

\* C1 witness: in safe mode a path came back for a reaction whose sides
\* sort_together had to exchange
C1_Witness ==
    /\ fn = "reaction_leaf" /\ prev # <<>>
    /\ safemode
    /\ ret.kind = "ok"
    /\ args[1] = <<prev[1][2], prev[1][1]>>
    /\ prev[1][1] # prev[1][2]

\* C2: sort_together is idempotent: applied to its own result it returns that result
C2_SortTogetherIdempotent ==
    (fn = "sort_together" /\ prev # <<>>) => ret.val = args

\* C2 witness: the second application followed a first one that changed its input
C2_Witness ==
    /\ fn = "sort_together" /\ prev # <<>>
    /\ args # prev
    /\ ret.val = args

\* C3: with s1, s2 the sides sorted by the canonical identifier order,
\* reaction_is_reversed is true exactly when the representation of s1 is strictly
\* greater than that of s2, and sort_together returns (s2, s1) when
\* reaction_is_reversed is true and (s1, s2) otherwise.
C3_SortConsistentWithReversed ==
    fn \in {"reaction_is_reversed", "sort_together"} =>
        \A s1 \in {CanonicalSide(args, 1)}, s2 \in {CanonicalSide(args, 2)} :
            \A greater \in {LexLt(FlatRep(s2), FlatRep(s1))} :
                /\ fn = "reaction_is_reversed" => ret.val = greater
                /\ fn = "sort_together" =>
                      /\ reaction_is_reversed(args[1], args[2], args[3]) = greater
                      /\ ret.val = IF greater
                                   THEN <<<<s2[1], s1[1]>>, <<s2[2], s1[2]>>, <<s2[3], s1[3]>>>>
                                   ELSE <<<<s1[1], s2[1]>>, <<s1[2], s2[2]>>, <<s1[3], s2[3]>>>>

\* C3 witness: sort_together exchanged the sides of a reaction whose first side
\* was not listed in canonical order
C3_Witness ==
    /\ fn = "sort_together" /\ prev = <<>>
    /\ reaction_is_reversed(args[1], args[2], args[3])
    /\ ret.val[1][2] # args[1][1]
    /\ ret.val[1][1] = CanonicalSide(args, 2)[1]

\* C6 (the claim): species_leaf and the multi-reactant leaf fail with an assertion,
\* safe mode on or off, when a charge or a multiplicity is not an integer or a
\* multiplicity is not valid for its identifier together with its charge, and in
\* safe mode when an identifier is not standard or not complete.
C6_InvalidSpeciesFails ==
    LET Bad(ich, chg, mul) ==
            \/ ~IsIntegral(chg)
            \/ ~IsIntegral(mul)
            \/ ~is_valid_inchi_multiplicity(ich, mul.num, chg.num)
            \/ safemode /\ (~is_standard_form(ich) \/ ~is_complete(ich))
    IN  /\ fn = "species_leaf" =>
              (Bad(args[1], args[2], args[3]) => ret.kind = "AssertionError")
        /\ fn = "_reactant_leaf" =>
              ((\E k \in 1..Len(args[1]) : Bad(args[1][k], args[2][k], args[3][k]))
                  => ret.kind = "AssertionError")

\* C10 (the claim): sort_together gives the same result however the species of a
\* side are listed.
C10_SideOrderIrrelevant ==
    (fn = "sort_together" /\ prev = <<>>) =>
        \A p1 \in Perms(Len(args[1][1])), p2 \in Perms(Len(args[1][2])) :
            LET y == <<<<Permuted(args[1][1], p1), Permuted(args[1][2], p2)>>,
                       <<Permuted(args[2][1], p1), Permuted(args[2][2], p2)>>,
                       <<Permuted(args[3][1], p1), Permuted(args[3][2], p2)>>>>
            IN  sort_together(y[1], y[2], y[3]) = ret.val
(***************************************************************************)
(* Properties of the numeric, sub-run, theory and scan layers.             *)
(***************************************************************************)
\* C4: transition_state_leaf, zmatrix_leaf and vrctst_leaf accept exactly the
\* integers 0..99: for them the name is two decimal digits that convert back to
\* the number, and every other number fails with an assertion.
C4_NumericLeafRange ==
    fn \in {"transition_state_leaf", "zmatrix_leaf", "vrctst_leaf"} =>
        IF IsIntegral(args[1]) /\ args[1].num \in 0..99
        THEN /\ ret.kind = "ok"
             /\ Len(ret.val) = 2
             /\ \A k \in 1..Len(ret.val) : IsDigit(ret.val[k])
             /\ ParseInt(ret.val) = args[1].num
        ELSE ret = AssertionError

\* C4 witness: zmatrix_leaf(7) returned '07'
C4_Witness ==
    /\ fn = "zmatrix_leaf"
    /\ args = <<PyInt(7)>>
    /\ ret = Ok(<<"0", "7">>)

\* C5 (the claim as stated): for every integer macro index below 26 and every
\* integer micro index subrun_leaf returns one letter A-Z (0 gives 'A', 25 gives
\* 'Z') followed by the micro index as two decimal digits; from 26 on it fails.
C5_SubrunLeafAnyIndex ==
    (fn = "subrun_leaf" /\ IsIntegral(args[1]) /\ IsIntegral(args[2])) =>
        IF args[1].num < 26
        THEN /\ ret.kind = "ok"
             /\ Len(ret.val) = 3
             /\ IsUpper(ret.val[1])
             /\ args[1].num \in 0..25 => ret.val[1] = ascii_uppercase[args[1].num + 1]
             /\ IsDigit(ret.val[2]) /\ IsDigit(ret.val[3])
             /\ ParseInt(Tail(ret.val)) = args[2].num
        ELSE ret.kind # "ok"

\* C5 (amended): for a macro index in 0..25 and a micro index in 0..99 the name
\* is the letter of the macro index followed by the micro index as two decimal
\* digits; a macro index from 26 on fails.  Outside these ranges: a macro index
\* in -26..-1 gives the letter counted from the end of the alphabet, one below
\* -26 fails with an index error, and a micro index outside 0..99 is written as
\* str writes it, with its sign and all its digits.
C5_SubrunLeafInRange ==
    (fn = "subrun_leaf" /\ IsIntegral(args[1]) /\ IsIntegral(args[2])) =>
        LET macro == args[1].num
            micro == args[2].num
        IN  /\ macro >= 26 => ret = AssertionError
            /\ macro < -26 => ret = IndexError
            /\ macro \in (-26)..25 =>
                  /\ ret.kind = "ok"
                  /\ ret.val[1] = ascii_uppercase[IF macro >= 0 THEN macro + 1 ELSE macro + 27]
                  /\ ParseInt(Tail(ret.val)) = micro
                  /\ \A k \in 2..Len(ret.val) : IsDigit(ret.val[k]) \/ (k = 2 /\ micro < 0)
                  /\ micro \in 0..99 => Len(ret.val) = 3
                  /\ micro >= 100 => Len(ret.val) > 3 /\ ret.val[2] # "0"
                  /\ micro < 0 => ret.val[2] = "-" /\ ret.val[3] # "0"

\* C5 witness: subrun_leaf(0, 3) returned 'A03'
C5_Witness ==
    /\ fn = "subrun_leaf"
    /\ args = <<PyInt(0), PyInt(3)>>
    /\ ret = Ok(<<"A", "0", "3">>)

\* C7: theory_leaf returns [hash of the lower-cased joined prefixes and '-', when
\* the method has prefixes], the hash of the lower-cased core method, the hash of
\* the lower-cased basis and the orbital marker: the literal 'R' or 'U', or '@' and
\* the upper-cased hash of a list of two integers.  The name does not depend on
\* the letter case of the basis, the marker of a pair is neither 'R' nor 'U' (and
\* the name differs from those of 'R' and 'U'), and any other orbital type, an
\* unregistered core method or an unregistered basis makes the call fail.
C7_TheoryLeafName ==
    fn = "theory_leaf" =>
        LET method == args[1]
            basis == args[2]
            orb == args[3]
            core == evaluate_method_type(method)[1]
            pfxs == evaluate_method_type(method)[2]
            literal == orb.typ = "str" /\ (orb.str = <<"R">> \/ orb.str = <<"U">>)
            pair == /\ orb.typ = "list"
                    /\ Len(orb.items) = 2
                    /\ IsIntegral(orb.items[1]) /\ IsIntegral(orb.items[2])
            marker == IF literal THEN orb.str
                      ELSE <<"@">> \o upper(short_hash(ListText(orb.items)))
            name == (IF pfxs # <<>> THEN short_hash(lower(Join(<<>>, pfxs))) \o <<"-">>
                     ELSE <<>>)
                        \o short_hash(lower(core)) \o short_hash(lower(basis)) \o marker
        IN  /\ (method_contains(core) /\ basis_contains(basis) /\ (literal \/ pair))
                  => ret = Ok(name)
            /\ ~(method_contains(core) /\ basis_contains(basis) /\ (literal \/ pair))
                  => ret = AssertionError
            /\ \A b \in Bases : lower(b) = lower(basis) => theory_leaf(method, b, orb) = ret
            /\ (pair /\ ret.kind = "ok") =>
                  /\ marker # <<"R">> /\ marker # <<"U">>
                  /\ SubSeq(ret.val, Len(ret.val) - Len(marker) + 1, Len(ret.val)) = marker
                  /\ ret # theory_leaf(method, basis, OrbStr(<<"R">>))
                  /\ ret # theory_leaf(method, basis, OrbStr(<<"U">>))

\* C7 witness: a name came back for a method with a prefix, a basis in mixed case
\* and a pair of orbital counts
C7_Witness ==
    /\ fn = "theory_leaf"
    /\ args = <<<<"A", "E", "-", "h", "f">>, <<"S", "t", "o">>, OrbList(<<PyInt(1), PyInt(2)>>)>>
    /\ ret.kind = "ok"
    /\ ret.val[4] = "-"

\* C8: the mapping cscan_branch1 hashes lists the names by type (R, A, D) and then
\* by the integer value of the index, each name with its own value rounded to two
\* decimals, so the branch name is the same for every insertion order of the
\* input mapping.
C8_CscanBranch1OrderFree ==
    fn = "cscan_branch1" =>
        LET TypeCode(name) == CASE name[1] = "R" -> 0 [] name[1] = "A" -> 1 [] name[1] = "D" -> 2
            Index(name) == ParseInt(Tail(name))
            Near(v, w) == v - w \in (-5)..5
        IN  \A hashed \in {cons_coo_val_dct(args)} :
            /\ Len(hashed) = Len(args)
            /\ \A a, b \in 1..Len(hashed) :
                  a < b => \/ TypeCode(hashed[a][1]) < TypeCode(hashed[b][1])
                           \/ /\ TypeCode(hashed[a][1]) = TypeCode(hashed[b][1])
                              /\ Index(hashed[a][1]) < Index(hashed[b][1])
            /\ \A k \in 1..Len(hashed) :
                  /\ hashed[k][2] % 10 = 0
                  /\ \E j \in 1..Len(args) :
                        args[j][1] = hashed[k][1] /\ Near(hashed[k][2], args[j][2])
            /\ ret.val = short_hash(DictText(hashed))
            /\ \A p \in Perms(Len(args)) : cscan_branch1(Permuted(args, p)) = ret.val

\* C8 witness: a mapping that lists R10 before D3 before R2 was hashed as R2, R10, D3
C8_Witness ==
    /\ fn = "cscan_branch1"
    /\ Len(args) = 3
    /\ args[1][1] = <<"R", "1", "0">> /\ args[2][1] = <<"D", "3">> /\ args[3][1] = <<"R", "2">>
    /\ args[3][2] = 1006
    /\ cons_coo_val_dct(args)[1] = <<<<"R", "2">>, 1010>>
    /\ cons_coo_val_dct(args)[2][1] = <<"R", "1", "0">>
    /\ ret.val = short_hash(DictText(cons_coo_val_dct(args)))

\* the hundredths a field d.dd stands for, without its sign
FieldHundredths(f) ==
    LET body == IF f[1] = "-" THEN Tail(f) ELSE f
    IN  100 * DigitsValue(SubSeq(body, 1, Len(body) - 3))
            + DigitsValue(SubSeq(body, Len(body) - 1, Len(body)))

\* field f is the number of n thousandths written with two decimals
IsFixed2Of(f, n) ==
    LET body == IF f[1] = "-" THEN Tail(f) ELSE f
        a == IF n < 0 THEN -n ELSE n
    IN  /\ (f[1] = "-") = (n < 0)
        /\ Len(body) >= 4
        /\ body[Len(body) - 2] = "."
        /\ \A k \in 1..Len(body) : k # Len(body) - 2 => IsDigit(body[k])
        /\ 10 * FieldHundredths(f) - a \in (-5)..5

\* C9: scan_branch and cscan_branch2 return the names in lexicographic order
\* joined by underscores, the same name for every ordering of the names;
\* scan_leaf and cscan_leaf return one two-decimal field per value, joined by
\* underscores, field i written from value i.
C9_ScanNames ==
    /\ fn \in {"scan_branch", "cscan_branch2"} =>
          \A names \in {Split(ret.val, "_")} :
              /\ Len(names) = Len(args)
              /\ \A a, b \in 1..Len(names) : a < b => ~StrLt(names[b], names[a])
              /\ \A n \in CooNames :
                    Cardinality({k \in 1..Len(names) : names[k] = n})
                        = Cardinality({k \in 1..Len(args) : args[k] = n})
              /\ \A p \in Perms(Len(args)) :
                    /\ fn = "scan_branch" => scan_branch(Permuted(args, p)) = ret.val
                    /\ fn = "cscan_branch2" => cscan_branch2(Permuted(args, p)) = ret.val
    /\ fn \in {"scan_leaf", "cscan_leaf"} =>
          \A fields \in {Split(ret.val, "_")} :
              /\ Len(fields) = Len(args)
              /\ \A k \in 1..Len(fields) : IsFixed2Of(fields[k], args[k])

\* C9 witness: scan_leaf([2.0, 1.004, -0.004]) returned '2.00_1.00_-0.00', the
\* values in the order given
C9_Witness ==
    /\ fn = "scan_leaf"
    /\ args = <<2000, 1004, -4>>
    /\ ret.val = <<"2", ".", "0", "0", "_", "1", ".", "0", "0", "_", "-", "0", ".", "0", "0">>
====
